---- MODULE Spec2Model ----
(***************************************************************************)
(* A model of quadtree_simple (src/src/lib.rs): Qrect, Point and Quadtree  *)
(* with insert, subdivide, query_rect, query_circle, collect, get_rects    *)
(* and empty.                                                              *)
(*                                                                         *)
(* Coordinates are f32.  An f32 value is modelled by the integer number of *)
(* units it holds, the unit being a fixed power of two (1/32 for the tree  *)
(* of the crate's tests, so that 50.0 is 1600).  binary32 has a 24 bit     *)
(* significand: every integer of magnitude below 2^24 units is a value,    *)
(* larger magnitudes are values only when they are a multiple of their     *)
(* binade's quantum, and the result of +, - and * is rounded to the        *)
(* nearest value, ties to the even significand.  Division by 2.0 only      *)
(* lowers the exponent and is exact.                                       *)
(***************************************************************************)
EXTENDS Integers, Sequences, FiniteSets

VARIABLES
    qt,        \* the root Quadtree
    prev,      \* the tree as it was when the last call was made
    accepted,  \* the points insert returned true for, in call order, since
               \* the tree was last empty
    calls,     \* the insert calls made since the tree was last empty
    op,        \* the last call: "new", "insert", "query_rect", "query_circle",
               \* "collect", "get_rects" or "empty"
    point,     \* the point the last call was given (insert)
    range,     \* the rectangle the last call was given (query_rect), or the
               \* bounding square of its circle (query_circle)
    ret,       \* what the last insert returned
    found,     \* the sequence the last query returned
    visited,   \* the nodes whose points the last query_rect walked
    stack      \* the insert calls in progress, the outermost first: the
               \* path from the root to each call's node and the child whose
               \* call it made last; empty between calls

vars ==
    <<qt, prev, accepted, calls, op, point, range, ret, found, visited, stack>>

---------------------------------------------------------------------------
(* f32 arithmetic *)

\* Bits of the binary32 significand (the hidden bit included).
F32Digits == 24

RECURSIVE Pow2(_)
Pow2(n) == IF n = 0 THEN 1 ELSE 2 * Pow2(n - 1)

\* The spacing of the f32 values around magnitude a: 1 unit below 2^24
\* units, doubling with every binade above.
\* The least magnitude, in units, at which the spacing exceeds the unit.
F32Limit == Pow2(F32Digits)

RECURSIVE Quantum(_)
Quantum(a) == IF a < F32Limit THEN 1 ELSE 2 * Quantum(a \div 2)

\* Round a magnitude to the nearest multiple of its quantum, ties to even.
RoundMagnitude(a) ==
    LET q  == Quantum(a)
        lo == a - (a % q)
        r  == a % q
    IN  IF 2 * r < q THEN lo
        ELSE IF 2 * r > q THEN lo + q
        ELSE IF (lo \div q) % 2 = 0 THEN lo ELSE lo + q

\* The f32 nearest to the exact result v (round to nearest, ties to even).
Fl(v) == IF v < 0 THEN 0 - RoundMagnitude(0 - v) ELSE RoundMagnitude(v)

FAdd(a, b) == Fl(a + b)
FSub(a, b) == Fl(a - b)
FMul(a, b) == Fl(a * b)
\* x / 2. : exact, the reachable extents being even multiples of the unit.
FHalf(a) == a \div 2

---------------------------------------------------------------------------
(* Point and Qrect *)

Point_new(x, y, data) == [x |-> x, y |-> y, data |-> data]

Qrect_new(x, y, w, h) == [x |-> x, y |-> y, w |-> w, h |-> h]

Qrect_range(x, y, r) == [x |-> x, y |-> y, w |-> r, h |-> r]

\* contains_point, had it tested the y axis only.
contains_point_y_only(self, p) ==
    /\ p.y >= FSub(self.y, self.h)
    /\ p.y <= FAdd(self.y, self.h)

contains_point(self, p) ==
    /\ p.x >= FSub(self.x, self.w)
    /\ p.x <= FAdd(self.x, self.w)
    /\ p.y >= FSub(self.y, self.h)
    /\ p.y <= FAdd(self.y, self.h)

\* intersects_rect, had it tested the y axis only.
intersects_rect_y_only(self, rng) ==
    ~ \/ FSub(rng.y, rng.h) > FAdd(self.y, self.h)
      \/ FAdd(rng.y, rng.h) < FSub(self.y, self.h)

\* intersects_rect, had it taken touching rectangles for disjoint.
intersects_rect_strict(self, rng) ==
    ~ \/ FSub(rng.x, rng.w) >= FAdd(self.x, self.w)
      \/ FAdd(rng.x, rng.w) <= FSub(self.x, self.w)
      \/ FSub(rng.y, rng.h) >= FAdd(self.y, self.h)
      \/ FAdd(rng.y, rng.h) <= FSub(self.y, self.h)

intersects_rect(self, rng) ==
    ~ \/ FSub(rng.x, rng.w) > FAdd(self.x, self.w)
      \/ FAdd(rng.x, rng.w) < FSub(self.x, self.w)
      \/ FSub(rng.y, rng.h) > FAdd(self.y, self.h)
      \/ FAdd(rng.y, rng.h) < FSub(self.y, self.h)

---------------------------------------------------------------------------
(* Quadtree *)

\* Option<Box<Quadtree>>: None is the empty sequence, Some(t) is <<t>>.
None == <<>>
Some(t) == <<t>>
\* Option::unwrap; on None the indexing fails, as unwrap panics.
unwrap(o) == o[1]

new(boundary, capacity) ==
    [boundary |-> boundary, capacity |-> capacity, points |-> <<>>,
     divided |-> FALSE,
     top_left |-> None, top_right |-> None,
     bottom_left |-> None, bottom_right |-> None]

\* The four Qrects subdivide builds, in the order tl, tr, bl, br.
quadrants(boundary) ==
    LET x == boundary.x
        y == boundary.y
        w == boundary.w
        h == boundary.h
        tr == Qrect_new(FAdd(x, FHalf(w)), FSub(y, FHalf(h)), FHalf(w), FHalf(h))
        tl == Qrect_new(FSub(x, FHalf(w)), FSub(y, FHalf(h)), FHalf(w), FHalf(h))
        br == Qrect_new(FAdd(x, FHalf(w)), FAdd(y, FHalf(h)), FHalf(w), FHalf(h))
        bl == Qrect_new(FSub(x, FHalf(w)), FAdd(y, FHalf(h)), FHalf(w), FHalf(h))
    IN  <<tl, tr, bl, br>>

\* subdivide, had it given the children no capacity.
subdivide_without_capacity(self) ==
    [self EXCEPT !.top_left = Some(new(quadrants(self.boundary)[1], 0)),
                 !.top_right = Some(new(quadrants(self.boundary)[2], 0)),
                 !.bottom_left = Some(new(quadrants(self.boundary)[3], 0)),
                 !.bottom_right = Some(new(quadrants(self.boundary)[4], 0)),
                 !.divided = TRUE]

\* subdivide, had it also cleared the node's own points.
subdivide_clearing(self) ==
    [self EXCEPT !.top_left = Some(new(quadrants(self.boundary)[1], self.capacity)),
                 !.top_right = Some(new(quadrants(self.boundary)[2], self.capacity)),
                 !.bottom_left = Some(new(quadrants(self.boundary)[3], self.capacity)),
                 !.bottom_right = Some(new(quadrants(self.boundary)[4], self.capacity)),
                 !.divided = TRUE,
                 !.points = <<>>]

subdivide(self) ==
    [self EXCEPT !.top_left = Some(new(quadrants(self.boundary)[1], self.capacity)),
                 !.top_right = Some(new(quadrants(self.boundary)[2], self.capacity)),
                 !.bottom_left = Some(new(quadrants(self.boundary)[3], self.capacity)),
                 !.bottom_right = Some(new(quadrants(self.boundary)[4], self.capacity)),
                 !.divided = TRUE]

\* The child slots in the order insert tries them: TL, TR, BL, BR.
child(self, i) ==
    CASE i = 1 -> self.top_left
      [] i = 2 -> self.top_right
      [] i = 3 -> self.bottom_left
      [] OTHER -> self.bottom_right

\* self with child slot i holding c.
with_child(self, i, c) ==
    CASE i = 1 -> [self EXCEPT !.top_left = Some(c)]
      [] i = 2 -> [self EXCEPT !.top_right = Some(c)]
      [] i = 3 -> [self EXCEPT !.bottom_left = Some(c)]
      [] OTHER -> [self EXCEPT !.bottom_right = Some(c)]

\* insert returns bool and mutates self: the model returns both, ret being
\* the returned bool and self the node as the call leaves it.
\* try_children is the chain of `if self.<child>.insert(point) { return
\* true }` from child i on, ending in `return false`; a child that returns
\* false keeps what its own call did to it.
RECURSIVE insert(_, _), try_children(_, _, _)
try_children(self, p, i) ==
    IF i > 4 THEN [ret |-> FALSE, self |-> self]
    ELSE LET r == insert(unwrap(child(self, i)), p)
             s == with_child(self, i, r.self)
         IN  IF r.ret THEN [ret |-> TRUE, self |-> s]
             ELSE try_children(s, p, i + 1)

\* insert, had it called subdivide without testing self.divided.
insert_resubdividing(self, p) ==
    IF ~contains_point(self.boundary, p)
    THEN [ret |-> FALSE, self |-> self]
    ELSE IF Len(self.points) < self.capacity
    THEN [ret |-> TRUE, self |-> [self EXCEPT !.points = Append(@, p)]]
    ELSE try_children(subdivide(self), p, 1)

\* insert, had it pushed while len <= capacity.
insert_pushing_when_full(self, p) ==
    IF ~contains_point(self.boundary, p)
    THEN [ret |-> FALSE, self |-> self]
    ELSE IF Len(self.points) <= self.capacity
    THEN [ret |-> TRUE, self |-> [self EXCEPT !.points = Append(@, p)]]
    ELSE try_children(IF ~self.divided THEN subdivide(self) ELSE self, p, 1)

insert(self, p) ==
    IF ~contains_point(self.boundary, p)
    THEN [ret |-> FALSE, self |-> self]
    ELSE IF Len(self.points) < self.capacity
    THEN [ret |-> TRUE, self |-> [self EXCEPT !.points = Append(@, p)]]
    ELSE try_children(IF ~self.divided THEN subdivide(self) ELSE self, p, 1)

RECURSIVE query_rect(_, _)
\* query_rect, had it extended found with the TR matches before the TL ones
\* (subdivide builds tr before tl).
query_rect_tr_first(self, rng) ==
    IF ~intersects_rect(self.boundary, rng) THEN <<>>
    ELSE
      LET own == SelectSeq(self.points, LAMBDA p : contains_point(rng, p))
      IN  IF self.divided
          THEN own \o query_rect(unwrap(self.top_right), rng)
                   \o query_rect(unwrap(self.top_left), rng)
                   \o query_rect(unwrap(self.bottom_left), rng)
                   \o query_rect(unwrap(self.bottom_right), rng)
          ELSE own

query_rect(self, rng) ==
    IF ~intersects_rect(self.boundary, rng) THEN <<>>
    ELSE
      LET own == SelectSeq(self.points, LAMBDA p : contains_point(rng, p))
      IN  IF self.divided
          THEN own \o query_rect(unwrap(self.top_left), rng)
                   \o query_rect(unwrap(self.top_right), rng)
                   \o query_rect(unwrap(self.bottom_left), rng)
                   \o query_rect(unwrap(self.bottom_right), rng)
          ELSE own

\* The nodes whose point list one query_rect call walks: 0 when the call
\* returns at the intersects_rect test, else this node and, when divided,
\* those the four recursive calls walk.
RECURSIVE query_rect_visits(_, _)
query_rect_visits(self, rng) ==
    IF ~intersects_rect(self.boundary, rng) THEN 0
    ELSE IF self.divided
         THEN 1 + query_rect_visits(unwrap(self.top_left), rng)
                + query_rect_visits(unwrap(self.top_right), rng)
                + query_rect_visits(unwrap(self.bottom_left), rng)
                + query_rect_visits(unwrap(self.bottom_right), rng)
         ELSE 1

\* dist_x * dist_x + dist_y * dist_y of the retain closure.
dist(p, x, y) ==
    LET dist_x == FSub(p.x, x)
        dist_y == FSub(p.y, y)
    IN  FAdd(FMul(dist_x, dist_x), FMul(dist_y, dist_y))

\* query_circle, had it compared with <= (the circle's rim included).
query_circle_closed(self, x, y, r) ==
    SelectSeq(query_rect(self, Qrect_new(x, y, r, r)),
              LAMBDA p : dist(p, x, y) <= FMul(r, r))

query_circle(self, x, y, r) ==
    LET rect == Qrect_new(x, y, r, r)
        temp == query_rect(self, rect)
    IN  SelectSeq(temp, LAMBDA p : dist(p, x, y) < FMul(r, r))

\* collect, had it returned the node's own points only.
collect_own(self) == self.points

collect(self) == query_rect(self, self.boundary)

RECURSIVE get_rects(_)
get_rects(self) ==
    IF self.divided
    THEN <<self.boundary>> \o get_rects(unwrap(self.top_left))
                           \o get_rects(unwrap(self.top_right))
                           \o get_rects(unwrap(self.bottom_left))
                           \o get_rects(unwrap(self.bottom_right))
    ELSE <<self.boundary>>

\* empty, had it cleared the points only.
empty_points_only(self) ==
    [self EXCEPT !.points = <<>>]

\* empty, had it left the four child slots as they were.
empty_keeps_children(self) ==
    [self EXCEPT !.points = <<>>, !.divided = FALSE]

empty(self) ==
    [self EXCEPT !.points = <<>>, !.divided = FALSE,
                 !.top_left = None, !.top_right = None,
                 !.bottom_left = None, !.bottom_right = None]

---------------------------------------------------------------------------
(* The program: one tree, driven through its public operations *)

\* Insert calls made on a tree between two constructions or empty() calls.
MaxInserts == 4

\* Qrect::new(50., 50., 50., 50.) of the tests, in units of 1/32.
TestRoot == Qrect_new(1600, 1600, 1600, 1600)

\* A boundary whose quadrants are not all f32-representable: around 2^28
\* units the f32 values are 32 units apart, 16 apart just below.  Its x
\* quadrants are exact and their own halves are not; its y quadrants are
\* not exact.
Big == Pow2(28)
RoundRoot == Qrect_new(Big + 96, Big + 32, 64, 32)

Roots == {TestRoot, RoundRoot}

Capacities == {1, 2}

\* Coordinates handed to insert.  In TestRoot: (25, 25) of the tests, the
\* centre (on the corner of all four quadrants), a place inside BR, and
\* (100.03125, 25) outside the boundary.  In RoundRoot: a place on the edge
\* that TL and TR share, the centre, a place inside TR, and a place outside
\* the boundary.
Places(boundary) ==
    IF boundary = TestRoot
    THEN {<<800, 800>>, <<1600, 1600>>, <<2400, 2400>>, <<3201, 800>>}
    ELSE {<<Big + 96, Big>>, <<Big + 96, Big + 32>>, <<Big + 128, Big>>,
          <<Big + 192, Big>>}

\* Rectangles handed to query_rect: Qrect::range(25., 25., 1.) of the
\* tests, the boundary, a superset of it, one that touches the TL quadrant
\* at the centre only, and one apart from the boundary.
Ranges(boundary) ==
    IF boundary = TestRoot
    THEN {Qrect_range(800, 800, 32), TestRoot, Qrect_range(1600, 1600, 3200),
          Qrect_range(1632, 1632, 32), Qrect_new(4000, 800, 100, 50)}
    ELSE {RoundRoot, Qrect_range(Big + 96, Big + 32, 256),
          Qrect_range(Big + 96, Big, 0), Qrect_range(Big + 64, Big + 64, 32),
          Qrect_new(Big + 512, Big, 64, 64)}

\* Circles <<x, y, range>> handed to query_circle.  About (50, 43.75)
\* with range 31.25: (25, 25) is at distance 31.25 exactly, the centre is
\* nearer, and (75, 75) is farther but inside the bounding square.
Circles(boundary) ==
    IF boundary = TestRoot
    THEN {<<1600, 1400, 1000>>, <<800, 800, 32>>}
    ELSE {<<Big + 96, Big, 32>>, <<Big + 96, Big, 96>>}

NoPoint == Point_new(0, 0, 0)
NoRange == Qrect_new(0, 0, 0, 0)

Init ==
    /\ \E boundary \in Roots, capacity \in Capacities :
           qt = new(boundary, capacity)
    /\ prev = qt
    /\ accepted = <<>>
    /\ calls = 0
    /\ op = "new"
    /\ point = NoPoint
    /\ range = NoRange
    /\ ret = FALSE
    /\ found = <<>>
    /\ visited = 0
    /\ stack = <<>>

\* qt.insert(&Point::new(x, y, data)); the payload is the call's number,
\* as in the tests (0, 1, 2, 3): insert never reads it.
Insert ==
    /\ calls < MaxInserts
    /\ \E xy \in Places(qt.boundary) :
         LET p == Point_new(xy[1], xy[2], calls)
             r == insert(qt, p)
         IN  /\ qt' = r.self
             /\ ret' = r.ret
             /\ point' = p
             /\ accepted' = IF r.ret THEN Append(accepted, p) ELSE accepted
    /\ prev' = qt
    /\ calls' = calls + 1
    /\ op' = "insert"
    /\ range' = NoRange
    /\ found' = <<>>
    /\ visited' = 0
    /\ UNCHANGED stack

QueryRect ==
    /\ \E rng \in Ranges(qt.boundary) :
         /\ found' = query_rect(qt, rng)
         /\ visited' = query_rect_visits(qt, rng)
         /\ range' = rng
    /\ op' = "query_rect"
    /\ prev' = qt
    /\ point' = NoPoint
    /\ ret' = FALSE
    /\ UNCHANGED <<qt, accepted, calls, stack>>

QueryCircle ==
    /\ \E c \in Circles(qt.boundary) :
         /\ found' = query_circle(qt, c[1], c[2], c[3])
         /\ range' = Qrect_new(c[1], c[2], c[3], c[3])
    /\ op' = "query_circle"
    /\ prev' = qt
    /\ point' = NoPoint
    /\ ret' = FALSE
    /\ visited' = 0
    /\ UNCHANGED <<qt, accepted, calls, stack>>

Collect ==
    /\ found' = collect(qt)
    /\ op' = "collect"
    /\ prev' = qt
    /\ point' = NoPoint
    /\ range' = NoRange
    /\ ret' = FALSE
    /\ visited' = 0
    /\ UNCHANGED <<qt, accepted, calls, stack>>

GetRects ==
    /\ found' = get_rects(qt)
    /\ op' = "get_rects"
    /\ prev' = qt
    /\ point' = NoPoint
    /\ range' = NoRange
    /\ ret' = FALSE
    /\ visited' = 0
    /\ UNCHANGED <<qt, accepted, calls, stack>>

Empty ==
    /\ qt' = empty(qt)
    /\ prev' = qt
    /\ accepted' = <<>>
    /\ calls' = 0
    /\ op' = "empty"
    /\ point' = NoPoint
    /\ range' = NoRange
    /\ ret' = FALSE
    /\ found' = <<>>
    /\ visited' = 0
    /\ UNCHANGED stack

Next == Insert \/ QueryRect \/ QueryCircle \/ Collect \/ GetRects \/ Empty

Spec == Init /\ [][Next]_vars

---------------------------------------------------------------------------
(* insert, one recursive call at a time *)

\* The insert calls that may be in progress at once; a call that would go
\* deeper stays where it is.
MaxDepth == 4

\* Capacity 0 is a usize like any other: new() takes it.
StepCapacities == {0, 1}

\* The node at the end of a path of child indices (1 TL, 2 TR, 3 BL, 4 BR).
RECURSIVE NodeAt(_, _)
NodeAt(tree, path) ==
    IF path = <<>> THEN tree
    ELSE NodeAt(unwrap(child(tree, Head(path))), Tail(path))

\* The tree with the node at the end of the path replaced.
RECURSIVE Replace(_, _, _)
Replace(tree, path, node) ==
    IF path = <<>> THEN node
    ELSE with_child(tree, Head(path),
                    Replace(unwrap(child(tree, Head(path))), Tail(path), node))

\* The innermost call and its node (&mut self).
Top == stack[Len(stack)]
Self == NodeAt(qt, Top.path)

\* The innermost call returns r to its caller, or to the program when it
\* is the outermost.
Leave(r) ==
    /\ stack' = SubSeq(stack, 1, Len(stack) - 1)
    /\ ret' = r
    /\ op' = IF Len(stack) = 1 THEN "insert" ELSE "return"
    /\ accepted' = IF Len(stack) = 1 /\ r THEN Append(accepted, point)
                   ELSE accepted

\* The innermost call calls insert on child i of its node.
Enter(i) ==
    /\ stack' = Append([stack EXCEPT ![Len(stack)].i = i],
                       [path |-> Append(Top.path, i), i |-> 0])
    /\ op' = "call"
    /\ UNCHANGED <<ret, accepted>>

StepInit ==
    /\ \E boundary \in Roots, capacity \in StepCapacities :
           qt = new(boundary, capacity)
    /\ prev = qt
    /\ accepted = <<>>
    /\ calls = 0
    /\ op = "new"
    /\ point = NoPoint
    /\ range = NoRange
    /\ ret = FALSE
    /\ found = <<>>
    /\ visited = 0
    /\ stack = <<>>

\* The program calls qt.insert(&Point::new(x, y, data)).
Call ==
    /\ stack = <<>>
    /\ calls < MaxInserts
    /\ \E xy \in Places(qt.boundary) : point' = Point_new(xy[1], xy[2], calls)
    /\ stack' = <<[path |-> <<>>, i |-> 0]>>
    /\ op' = "call"
    /\ prev' = qt
    /\ calls' = calls + 1
    /\ UNCHANGED <<qt, accepted, ret, range, found, visited>>

\* if !self.boundary.contains_point(point) { return false }
Reject ==
    /\ op = "call"
    /\ ~contains_point(Self.boundary, point)
    /\ Leave(FALSE)
    /\ UNCHANGED <<qt, prev, calls, point, range, found, visited>>

\* if self.points.len() < self.capacity { push; return true }
Push ==
    /\ op = "call"
    /\ contains_point(Self.boundary, point)
    /\ Len(Self.points) < Self.capacity
    /\ qt' = Replace(qt, Top.path, [Self EXCEPT !.points = Append(@, point)])
    /\ Leave(TRUE)
    /\ UNCHANGED <<prev, calls, point, range, found, visited>>

\* if !self.divided { self.subdivide() }, then the call on top_left.
Descend ==
    /\ op = "call"
    /\ contains_point(Self.boundary, point)
    /\ ~(Len(Self.points) < Self.capacity)
    /\ Len(stack) < MaxDepth
    /\ qt' = Replace(qt, Top.path,
                     IF ~Self.divided THEN subdivide(Self) ELSE Self)
    /\ Enter(1)
    /\ UNCHANGED <<prev, calls, point, range, found, visited>>

\* A child's call returned true: return true.
ReturnTrue ==
    /\ op = "return"
    /\ ret
    /\ Leave(TRUE)
    /\ UNCHANGED <<qt, prev, calls, point, range, found, visited>>

\* A child's call returned false: the call on the next child.
NextChild ==
    /\ op = "return"
    /\ ~ret
    /\ Top.i < 4
    /\ Enter(Top.i + 1)
    /\ UNCHANGED <<qt, prev, calls, point, range, found, visited>>

\* The call on bottom_right returned false: the final return false.
ReturnFalse ==
    /\ op = "return"
    /\ ~ret
    /\ Top.i = 4
    /\ Leave(FALSE)
    /\ UNCHANGED <<qt, prev, calls, point, range, found, visited>>

\* A step of the insert call in progress.
Run == Reject \/ Push \/ Descend \/ ReturnTrue \/ NextChild \/ ReturnFalse

StepNext ==
    Call \/ Reject \/ Push \/ Descend \/ ReturnTrue \/ NextChild \/ ReturnFalse

StepSpec == StepInit /\ [][StepNext]_vars

\* A call in progress goes on running.
StepFair == StepSpec /\ WF_vars(Run)

---------------------------------------------------------------------------
(* What the claims speak of *)

\* The edges of a rectangle, as contains_point and intersects_rect compute
\* them.
XMin(b) == FSub(b.x, b.w)
XMax(b) == FAdd(b.x, b.w)
YMin(b) == FSub(b.y, b.h)
YMax(b) == FAdd(b.y, b.h)

\* p lies within rectangle b, its four edges included.
Within(b, p) ==
    /\ XMin(b) <= p.x /\ p.x <= XMax(b)
    /\ YMin(b) <= p.y /\ p.y <= YMax(b)

\* Rectangles a and b are strictly apart on at least one axis.
Apart(a, b) ==
    \/ XMax(a) < XMin(b) \/ XMax(b) < XMin(a)
    \/ YMax(a) < YMin(b) \/ YMax(b) < YMin(a)

\* Rectangle a covers rectangle b.
Covers(a, b) ==
    /\ XMin(a) <= XMin(b) /\ XMax(b) <= XMax(a)
    /\ YMin(a) <= YMin(b) /\ YMax(b) <= YMax(a)

\* The four children of a divided node, in the order TL, TR, BL, BR.
children(self) ==
    <<unwrap(self.top_left), unwrap(self.top_right),
      unwrap(self.bottom_left), unwrap(self.bottom_right)>>

\* Every point stored in the subtree: own points, then TL, TR, BL, BR.
RECURSIVE stored(_)
stored(self) ==
    IF self.divided
    THEN self.points \o stored(children(self)[1]) \o stored(children(self)[2])
                     \o stored(children(self)[3]) \o stored(children(self)[4])
    ELSE self.points

\* The number of nodes of the subtree that are divided.
RECURSIVE divisions(_)
divisions(self) ==
    IF self.divided
    THEN 1 + divisions(children(self)[1]) + divisions(children(self)[2])
           + divisions(children(self)[3]) + divisions(children(self)[4])
    ELSE 0

\* The elements of a sequence, as a set.
Range(s) == {s[i] : i \in 1 .. Len(s)}

\* How many times e occurs in sequence s.
Count(s, e) == Cardinality({i \in 1 .. Len(s) : s[i] = e})

\* Sequences s and t hold the same elements the same number of times.
SameBag(s, t) ==
    /\ Len(s) = Len(t)
    /\ \A e \in Range(s) \cup Range(t) : Count(s, e) = Count(t, e)

\* The nodes of the subtree.
RECURSIVE nodes(_)
nodes(self) ==
    IF self.divided
    THEN {self} \cup nodes(children(self)[1]) \cup nodes(children(self)[2])
                \cup nodes(children(self)[3]) \cup nodes(children(self)[4])
    ELSE {self}

---------------------------------------------------------------------------
(* C1 *)

\* C1: insert(p) returns true if and only if p lies within the root
\* boundary, edges included, however full or deep the tree already is.
C1_InsertIffInBoundary ==
    op = "insert" => (ret <=> Within(qt.boundary, point))

\* The squared distance from p to (x, y), in f32 as the crate computes it.
SquaredDistance(p, x, y) ==
    FAdd(FMul(FSub(p.x, x), FSub(p.x, x)), FMul(FSub(p.y, y), FSub(p.y, y)))

---------------------------------------------------------------------------
(* C2 *)

\* C2: collect() returns exactly the multiset of the points for which
\* insert returned true: none lost, none duplicated, no rejected one.
C2_CollectIsAccepted ==
    op = "collect" => SameBag(found, accepted)

\* collect() on a tree divided twice, after a rejected insert.
C2_Witness ==
    /\ op = "collect"
    /\ Len(found) >= 3
    /\ divisions(qt) >= 2
    /\ calls > Len(accepted)

---------------------------------------------------------------------------
(* C3 *)

\* C3: query_rect(range) returns exactly the stored points of the whole
\* tree that lie within range, edges included; pruning loses none.
C3_QueryRectExact ==
    op = "query_rect" =>
        SameBag(found, SelectSeq(stored(qt), LAMBDA p : Within(range, p)))

\* A query that pruned some node, returned some points and left others.
C3_Witness ==
    /\ op = "query_rect"
    /\ found # <<>>
    /\ Len(found) < Len(stored(qt))
    /\ visited < 1 + 4 * divisions(qt)

---------------------------------------------------------------------------
(* C4 *)

\* C4: after exactly capacity accepted inserts the root is not divided and
\* get_rects() is the root boundary alone; after capacity + 1 accepted
\* inserts exactly the root is divided, get_rects() is the root boundary
\* followed by its four children's, and collect() has capacity + 1 points.
C4_SplitAtCapacityPlusOne ==
    /\ Len(accepted) = qt.capacity =>
           /\ ~qt.divided
           /\ get_rects(qt) = <<qt.boundary>>
    /\ Len(accepted) = qt.capacity + 1 =>
           /\ qt.divided
           /\ divisions(qt) = 1
           /\ get_rects(qt) = <<qt.boundary>> \o
                  [i \in 1 .. 4 |-> children(qt)[i].boundary]
           /\ Len(collect(qt)) = qt.capacity + 1

---------------------------------------------------------------------------
(* C5 *)

\* C5: query_circle(x, y, r) returns exactly the stored points whose
\* squared distance to (x, y) is strictly less than r * r: one at distance
\* r is left out, and the bounding square drops none that is nearer.
C5_QueryCircleExact ==
    op = "query_circle" =>
        SameBag(found,
                SelectSeq(stored(qt),
                          LAMBDA p : SquaredDistance(p, range.x, range.y)
                                       < FMul(range.w, range.w)))

\* A circle query on a divided tree that returned a point, left out one at
\* distance r exactly, and left out one of the bounding square.
C5_Witness ==
    /\ op = "query_circle"
    /\ qt.divided
    /\ found # <<>>
    /\ \E p \in Range(stored(qt)) :
           SquaredDistance(p, range.x, range.y) = FMul(range.w, range.w)
    /\ \E p \in Range(stored(qt)) :
           /\ Within(range, p)
           /\ SquaredDistance(p, range.x, range.y) > FMul(range.w, range.w)

\* s can be obtained from t by deleting elements (the order kept).
RECURSIVE IsSubsequence(_, _)
IsSubsequence(s, t) ==
    IF s = <<>> THEN TRUE
    ELSE IF t = <<>> THEN FALSE
    ELSE IF Head(s) = Head(t) THEN IsSubsequence(Tail(s), Tail(t))
    ELSE IsSubsequence(s, Tail(t))

\* The place of an accepted point in the order of the accepted inserts.
Position(p) == CHOOSE k \in 1 .. Len(accepted) : accepted[k] = p

---------------------------------------------------------------------------
(* C6 *)

\* C6: after empty() the tree equals Quadtree::new(boundary, capacity)
\* with the boundary and capacity it had: no points, not divided, no
\* children; collect() is empty and get_rects() is the boundary alone.
C6_EmptyIsNew ==
    op = "empty" =>
        /\ qt = new(prev.boundary, prev.capacity)
        /\ collect(qt) = <<>>
        /\ get_rects(qt) = <<prev.boundary>>

\* empty() called on a divided tree that held points.
C6_Witness ==
    /\ op = "empty"
    /\ prev.divided
    /\ Len(stored(prev)) >= 2

---------------------------------------------------------------------------
(* C7 *)

\* C7: query_rect returns the node's own matches first, in the order they
\* were inserted, then those of TL, TR, BL, BR in that order, recursively;
\* a tree that holds at most capacity points returns them in insertion
\* order; and the result is a subsequence of collect().
C7_QueryOrder ==
    op = "query_rect" =>
        /\ found = SelectSeq(stored(qt), LAMBDA p : Within(range, p))
        /\ \A n \in nodes(qt) : \A i, j \in 1 .. Len(n.points) :
               i < j => Position(n.points[i]) < Position(n.points[j])
        /\ Len(accepted) <= qt.capacity =>
               found = SelectSeq(accepted, LAMBDA p : Within(range, p))
        /\ IsSubsequence(found, collect(qt))

\* A query that returned points of the root and of its children in an
\* order that is not the order of insertion.
C7_Witness ==
    /\ op = "query_rect"
    /\ Len(found) >= 3
    /\ found # SelectSeq(accepted, LAMBDA p : Within(range, p))

---------------------------------------------------------------------------
(* C8 *)

\* C8: query_rect with a rectangle strictly apart from the root boundary
\* on some axis returns the empty sequence, decided at the root: no
\* node's points are walked.
C8_DisjointQueryEmpty ==
    (op = "query_rect" /\ Apart(range, qt.boundary)) =>
        (found = <<>> /\ visited = 0)

\* Such a query on a divided tree that holds points.
C8_Witness ==
    /\ op = "query_rect"
    /\ Apart(range, qt.boundary)
    /\ qt.divided
    /\ Len(stored(qt)) >= 2

---------------------------------------------------------------------------
(* C9 *)

\* C9: query_rect with a rectangle that covers the root boundary returns
\* the same sequence as collect().
C9_CoveringQueryIsCollect ==
    (op = "query_rect" /\ Covers(range, qt.boundary)) =>
        found = collect(qt)

\* Such a query, with a rectangle larger than the boundary, on a divided
\* tree.
C9_Witness ==
    /\ op = "query_rect"
    /\ Covers(range, qt.boundary)
    /\ range # qt.boundary
    /\ qt.divided
    /\ Len(found) >= 3

---------------------------------------------------------------------------
(* C10 *)

\* The children a node starts the call with: its own, or the empty ones
\* subdivide gives it.
ChildrenBefore(pre, post) ==
    IF pre.divided THEN children(pre)
    ELSE [i \in 1 .. 4 |-> new(children(post)[i].boundary, pre.capacity)]

\* insert of p took node pre to node post by storing p in the first node
\* on the path with room: in pre itself, or else in the subtree of the
\* first child (TL, TR, BL, BR) whose boundary contains p, and in no other.
RECURSIVE PlacedIn(_, _, _)
PlacedIn(pre, post, p) ==
    IF Len(pre.points) < pre.capacity
    THEN post.points = Append(pre.points, p)
    ELSE /\ post.points = pre.points
         /\ post.divided
         /\ \E i \in 1 .. 4 : Within(children(post)[i].boundary, p)
         /\ LET first == CHOOSE i \in 1 .. 4 :
                    /\ Within(children(post)[i].boundary, p)
                    /\ \A j \in 1 .. i - 1 :
                           ~Within(children(post)[j].boundary, p)
            IN  /\ \A j \in (1 .. 4) \ {first} :
                       stored(children(post)[j]) =
                           stored(ChildrenBefore(pre, post)[j])
                /\ PlacedIn(ChildrenBefore(pre, post)[first],
                            children(post)[first], p)

\* C10: an accepted point is stored in exactly one node: the node itself
\* while it has room, else in the subtree of the first child in the order
\* TL, TR, BL, BR whose boundary contains it (the centre goes to TL).
C10_Placement ==
    (op = "insert" /\ ret) =>
        /\ Count(stored(qt), point) = 1
        /\ PlacedIn(prev, qt, point)

---------------------------------------------------------------------------
(* C11 *)

\* Every node that was full before the call has the same points after it,
\* through the whole subtree.
RECURSIVE FullStays(_, _)
FullStays(pre, post) ==
    /\ Len(pre.points) = pre.capacity => post.points = pre.points
    /\ pre.divided =>
           /\ post.divided
           /\ \A i \in 1 .. 4 : FullStays(children(pre)[i], children(post)[i])

\* C11: every node holds at most capacity points of its own, and an
\* insert appends nothing to a node whose list had reached capacity.
C11_AtMostCapacity ==
    /\ \A n \in nodes(qt) : Len(n.points) <= n.capacity
    /\ op = "insert" => FullStays(prev, qt)

\* An accepted insert into a tree whose root and one child were full.
C11_Witness ==
    /\ op = "insert"
    /\ ret
    /\ prev.divided
    /\ \E i \in 1 .. 4 :
           Len(children(prev)[i].points) = children(prev)[i].capacity
    /\ Len(stored(qt)) >= 3

---------------------------------------------------------------------------
(* C12 *)

\* Rectangle c is the exact quadrant i (1 TL, 2 TR, 3 BL, 4 BR) of
\* rectangle b: half the extents, the centre half an extent off b's.
ExactQuadrant(b, c, i) ==
    /\ 2 * c.w = b.w
    /\ 2 * c.h = b.h
    /\ 2 * c.x = 2 * b.x + (IF i \in {1, 3} THEN -b.w ELSE b.w)
    /\ 2 * c.y = 2 * b.y + (IF i \in {1, 2} THEN -b.h ELSE b.h)

\* C12: a node that is not divided has no child and a divided node has all
\* four; each child has its parent's capacity and the exact quadrant of
\* its parent's boundary as its own.
C12_Structure ==
    \A n \in nodes(qt) :
        IF n.divided
        THEN /\ \A i \in 1 .. 4 : child(n, i) # None
             /\ \A i \in 1 .. 4 :
                    /\ children(n)[i].capacity = n.capacity
                    /\ ExactQuadrant(n.boundary, children(n)[i].boundary, i)
        ELSE \A i \in 1 .. 4 : child(n, i) = None

---------------------------------------------------------------------------
(* C13 *)

\* Sequence s is the beginning of sequence t.
IsPrefix(s, t) == Len(s) <= Len(t) /\ SubSeq(t, 1, Len(s)) = s

\* Node post is node pre with nothing taken away: the same boundary and
\* capacity, the points it had, and, when pre was divided, the same four
\* children, each with nothing taken away.
RECURSIVE Kept(_, _)
Kept(pre, post) ==
    /\ post.boundary = pre.boundary
    /\ post.capacity = pre.capacity
    /\ IsPrefix(pre.points, post.points)
    /\ pre.divided =>
           /\ post.divided
           /\ \A i \in 1 .. 4 : Kept(children(pre)[i], children(post)[i])

\* C13: no call but empty() takes anything from the tree: a divided node
\* stays divided and keeps its four children with the points and subtrees
\* they hold (subdivide runs on undivided nodes only), and no node's
\* boundary or capacity changes.
C13_DividedOnce ==
    op # "empty" => Kept(prev, qt)

\* An insert that changed a tree which was divided at two levels.
C13_Witness ==
    /\ op = "insert"
    /\ divisions(prev) >= 2
    /\ Len(stored(prev)) >= 3
    /\ qt # prev

---------------------------------------------------------------------------
(* C14 *)

\* The coordinates insert is called with, as points.
Probes == {Point_new(xy[1], xy[2], 0) : xy \in Places(qt.boundary)}

\* C14: the four child boundaries cover their parent's: a point within a
\* divided node's boundary is within one of its children's, and so an
\* insert of a point within the root boundary does not come to the final
\* return false.
C14_ChildrenTile ==
    /\ \A n \in nodes(qt) : n.divided =>
           \A p \in Probes :
               Within(n.boundary, p) =>
                   \E i \in 1 .. 4 : Within(children(n)[i].boundary, p)
    /\ (op = "insert" /\ ~ret) => ~Within(qt.boundary, point)

---------------------------------------------------------------------------
(* C15 *)

\* The greater of two numbers.
Max(a, b) == IF a >= b THEN a ELSE b

\* The levels of nodes below a node.
RECURSIVE height(_)
height(self) ==
    IF self.divided
    THEN 1 + Max(Max(height(children(self)[1]), height(children(self)[2])),
                 Max(height(children(self)[3]), height(children(self)[4])))
    ELSE 0

---------------------------------------------------------------------------
(* C16 *)

\* C16: with capacity 0 an insert of a point within the root boundary
\* stores nothing, is never accepted and does not return: the call stays
\* in progress.
C16_NeverReturns ==
    (qt.capacity = 0 /\ calls > 0 /\ Within(qt.boundary, point)) =>
        /\ stored(qt) = <<>>
        /\ accepted = <<>>
        /\ op # "insert"

---------------------------------------------------------------------------
(* C17 *)

\* Every node that was divided before the call has the same points after
\* it, through the whole subtree.
RECURSIVE DividedStay(_, _)
DividedStay(pre, post) ==
    pre.divided =>
        /\ post.points = pre.points
        /\ post.divided
        /\ \A i \in 1 .. 4 : DividedStay(children(pre)[i], children(post)[i])

\* C17: a divided node holds exactly capacity points, so every node that
\* has children is full, and an insert appends nothing to a node that was
\* divided.
C17_DividedIsFull ==
    /\ \A n \in nodes(qt) : n.divided => Len(n.points) = n.capacity
    /\ op = "insert" => DividedStay(prev, qt)

\* An accepted insert into a tree that was divided at two levels.
C17_Witness ==
    /\ op = "insert"
    /\ ret
    /\ divisions(prev) >= 2
    /\ \E n \in nodes(qt) : n # qt /\ n.divided

---------------------------------------------------------------------------
(* C18 *)

\* Every point of the subtree lies within the boundary of the node that
\* holds it and within each of the boundaries in outer.
RECURSIVE ContainedIn(_, _)
ContainedIn(self, outer) ==
    /\ \A k \in 1 .. Len(self.points) :
           \A b \in outer \cup {self.boundary} : Within(b, self.points[k])
    /\ self.divided =>
           \A i \in 1 .. 4 :
               ContainedIn(children(self)[i], outer \cup {self.boundary})

\* C18: every stored point lies within the boundary of its node and of
\* every ancestor of its node up to the root, edges included.
C18_Containment ==
    ContainedIn(qt, {})

\* A point stored two levels below the root.
C18_Witness ==
    /\ qt.divided
    /\ \E i \in 1 .. 4 :
           /\ children(qt)[i].divided
           /\ \E j \in 1 .. 4 : children(children(qt)[i])[j].points # <<>>

---------------------------------------------------------------------------
(* C19 *)

\* C19: get_rects() has one rectangle for the root and four for every
\* divided node; an insert call subdivides at most once, so that it adds
\* none or four; and collect() gains exactly the point of an insert that
\* returns true and nothing from one that returns false.
C19_OneSubdivision ==
    /\ Len(get_rects(qt)) = 1 + 4 * divisions(qt)
    /\ op = "insert" =>
           /\ divisions(qt) - divisions(prev) \in {0, 1}
           /\ Len(get_rects(qt)) - Len(get_rects(prev)) \in {0, 4}
           /\ Len(collect(qt)) - Len(collect(prev)) = (IF ret THEN 1 ELSE 0)

---------------------------------------------------------------------------
(* C20 *)

\* insert of p took node pre to node post by changing nodes of one path
\* only: post is pre with p appended, or post is pre, divided, with one
\* child changed in this same way and the three others as they were (as
\* subdivide made them, when pre was not divided).
RECURSIVE OnePath(_, _, _)
OnePath(pre, post, p) ==
    \/ post = [pre EXCEPT !.points = Append(@, p)]
    \/ /\ post.divided
       /\ post = [pre EXCEPT !.divided = TRUE,
                             !.top_left = post.top_left,
                             !.top_right = post.top_right,
                             !.bottom_left = post.bottom_left,
                             !.bottom_right = post.bottom_right]
       /\ \E i \in 1 .. 4 :
              /\ \A j \in (1 .. 4) \ {i} :
                     children(post)[j] = ChildrenBefore(pre, post)[j]
              /\ OnePath(ChildrenBefore(pre, post)[i], children(post)[i], p)

\* C20: an insert that returns true changes only nodes on the one path
\* from the root to the node that takes the point: a child that was tried
\* and rejected the point has gained no point and was not subdivided; an
\* insert that returns false leaves the whole tree as it was.
C20_Frame ==
    op = "insert" =>
        IF ret THEN OnePath(prev, qt, point) ELSE qt = prev

====
